---- MODULE Spec2Model ----
(* Model of src/backend/app.py: the lifespan context manager (startup,     *)
(* yield, shutdown) of the FastAPI application, its two module globals     *)
(* sql_agents and azure_client, the reference published through            *)
(* sql_agents.agent_manager, and the /health route.                        *)
EXTENDS Integers, Sequences, FiniteSets, TLC

\* Number of distinct handles a factory may return.
NumHandles == 2
\* Number of /health requests routed while the application runs.
MaxRequests == 3

\* Python's None for the two module globals and the published reference.
None == 0
Handles == 1..NumHandles

VARIABLES pc, creds, azure_client, agent_config, sql_agents, published,
          calls, startup_error, cleanup_error, propagated, requests, response

vars == <<pc, creds, azure_client, agent_config, sql_agents, published,
          calls, startup_error, cleanup_error, propagated, requests, response>>

NoConfig == [project_client |-> None, sql_from |-> "", sql_to |-> ""]
NoResponse == [status |-> ""]
Healthy == [status |-> "healthy"]

StartupPcs == {"get_azure_credential", "create_client", "AgentBaseConfig",
               "SqlAgents_create", "set_sql_agents"}
ShutdownPcs == {"check_sql_agents", "delete_agents", "clear_sql_agents",
                "check_azure_client", "close"}

\* Python truthiness of a handle in `if sql_agents:` / `if azure_client:`.
Truthy(h) == h # None

\* One call made to a collaborator: its name, whether it returned, its result.
Call(op, ok, ret) == [op |-> op, ok |-> ok, ret |-> ret]

Count(op) == Cardinality({i \in DOMAIN calls : calls[i].op = op})
Called(op) == Count(op) > 0
Failed(op) == \E i \in DOMAIN calls : calls[i].op = op /\ ~calls[i].ok
Returned(op) == \E i \in DOMAIN calls : calls[i].op = op /\ calls[i].ok
ResultOf(op) ==
    calls[CHOOSE i \in DOMAIN calls : calls[i].op = op /\ calls[i].ok].ret
Before(a, b) == \A i, j \in DOMAIN calls :
                    (calls[i].op = a /\ calls[j].op = b) => i < j

Init ==
    /\ pc = "get_azure_credential"
    /\ creds = FALSE
    /\ azure_client = None
    /\ agent_config = NoConfig
    /\ sql_agents = None
    /\ published = None
    /\ calls = <<>>
    /\ startup_error = ""
    /\ cleanup_error = ""
    /\ propagated = FALSE
    /\ requests = 0
    /\ response = NoResponse

\* ---------------------------------------------------------------- startup

\* A startup handler that re-raises instead of swallowing.
StartupExceptReraise(op) ==
    /\ calls' = Append(calls, Call(op, FALSE, None))
    /\ startup_error' = op
    /\ propagated' = TRUE
    /\ pc' = "done"
    /\ UNCHANGED <<creds, azure_client, agent_config, sql_agents, published,
                   cleanup_error, requests, response>>

\* A startup handler that also resets the client global.
StartupExceptResetClient(op) ==
    /\ calls' = Append(calls, Call(op, FALSE, None))
    /\ startup_error' = op
    /\ azure_client' = None
    /\ pc' = "serving"
    /\ UNCHANGED <<creds, agent_config, sql_agents, published,
                   cleanup_error, propagated, requests, response>>

\* The call op raises inside the startup try: `except Exception` logs the
\* error and falls through to the yield; no global is assigned.
StartupExcept(op) ==
    /\ calls' = Append(calls, Call(op, FALSE, None))
    /\ startup_error' = op
    /\ pc' = "serving"
    /\ UNCHANGED <<creds, azure_client, agent_config, sql_agents, published,
                   cleanup_error, propagated, requests, response>>

GetCredential ==
    /\ pc = "get_azure_credential"
    /\ \/ /\ creds' = TRUE
          /\ calls' = Append(calls, Call("get_azure_credential", TRUE, None))
          /\ pc' = "create_client"
          /\ UNCHANGED <<azure_client, agent_config, sql_agents, published,
                         startup_error, cleanup_error, propagated, requests,
                         response>>
       \/ StartupExcept("get_azure_credential")

CreateClient ==
    /\ pc = "create_client"
    /\ creds
    /\ \/ \E h \in Handles :
            /\ azure_client' = h
            /\ calls' = Append(calls, Call("create_client", TRUE, h))
            /\ pc' = "AgentBaseConfig"
            /\ UNCHANGED <<creds, agent_config, sql_agents, published,
                           startup_error, cleanup_error, propagated, requests,
                           response>>
       \/ StartupExcept("create_client")

BuildAgentConfig ==
    /\ pc = "AgentBaseConfig"
    /\ \/ /\ agent_config' = [project_client |-> azure_client,
                              sql_from |-> "informix", sql_to |-> "tsql"]
          /\ calls' = Append(calls, Call("AgentBaseConfig", TRUE, None))
          /\ pc' = "SqlAgents_create"
          /\ UNCHANGED <<creds, azure_client, sql_agents, published,
                         startup_error, cleanup_error, propagated, requests,
                         response>>
       \/ StartupExcept("AgentBaseConfig")

CreateAgents ==
    /\ pc = "SqlAgents_create"
    /\ \/ \E h \in Handles :
            /\ sql_agents' = h
            /\ calls' = Append(calls, Call("SqlAgents.create", TRUE, h))
            /\ pc' = "set_sql_agents"
            /\ UNCHANGED <<creds, azure_client, agent_config, published,
                           startup_error, cleanup_error, propagated, requests,
                           response>>
       \/ StartupExcept("SqlAgents.create")

\* sql_agents.agent_manager.set_sql_agents: publish the reference.
set_sql_agents(agents) == published' = agents

SetAgents ==
    /\ pc = "set_sql_agents"
    /\ \/ /\ set_sql_agents(sql_agents)
          /\ calls' = Append(calls, Call("set_sql_agents", TRUE, None))
          /\ pc' = "serving"
          /\ UNCHANGED <<creds, azure_client, agent_config, sql_agents,
                         startup_error, cleanup_error, propagated, requests,
                         response>>
       \/ StartupExcept("set_sql_agents")

\* ---------------------------------------------------------------- serving

\* A health route that reports the agents' availability.
HealthCheckReadsState ==
    /\ pc = "serving"
    /\ requests < MaxRequests
    /\ requests' = requests + 1
    /\ response' = IF Truthy(sql_agents) THEN Healthy
                   ELSE [status |-> "degraded"]
    /\ UNCHANGED <<pc, creds, azure_client, agent_config, sql_agents,
                   published, calls, startup_error, cleanup_error, propagated>>

\* A health route that creates the agents on demand.
HealthCheckLazyInit ==
    /\ pc = "serving"
    /\ requests < MaxRequests
    /\ requests' = requests + 1
    /\ response' = Healthy
    /\ \E h \in Handles : sql_agents' = h
    /\ UNCHANGED <<pc, creds, azure_client, agent_config,
                   published, calls, startup_error, cleanup_error, propagated>>

\* GET /health, routed only while the application runs (between the yield
\* and the resumption of lifespan).
HealthCheck ==
    /\ pc = "serving"
    /\ requests < MaxRequests
    /\ requests' = requests + 1
    /\ response' = Healthy
    /\ UNCHANGED <<pc, creds, azure_client, agent_config, sql_agents,
                   published, calls, startup_error, cleanup_error, propagated>>

\* The framework stops serving and resumes lifespan after the yield.
StopServing ==
    /\ pc = "serving"
    /\ pc' = "check_sql_agents"
    /\ UNCHANGED <<creds, azure_client, agent_config, sql_agents, published,
                   calls, startup_error, cleanup_error, propagated, requests,
                   response>>

\* --------------------------------------------------------------- shutdown

\* A cleanup handler that re-raises instead of swallowing.
ShutdownExceptReraise(op) ==
    /\ calls' = Append(calls, Call(op, FALSE, None))
    /\ cleanup_error' = op
    /\ propagated' = TRUE
    /\ pc' = "done"
    /\ UNCHANGED <<creds, azure_client, agent_config, sql_agents, published,
                   startup_error, requests, response>>

\* The call op raises inside the shutdown try: `except Exception` logs the
\* error; the rest of the try body is skipped and lifespan returns.
ShutdownExcept(op) ==
    /\ calls' = Append(calls, Call(op, FALSE, None))
    /\ cleanup_error' = op
    /\ pc' = "done"
    /\ UNCHANGED <<creds, azure_client, agent_config, sql_agents, published,
                   startup_error, propagated, requests, response>>

\* `if sql_agents:` with the test inverted.
CheckAgentsInverted ==
    /\ pc = "check_sql_agents"
    /\ pc' = IF ~Truthy(sql_agents) THEN "delete_agents"
             ELSE "check_azure_client"
    /\ UNCHANGED <<creds, azure_client, agent_config, sql_agents, published,
                   calls, startup_error, cleanup_error, propagated, requests,
                   response>>

CheckAgents ==
    /\ pc = "check_sql_agents"
    /\ pc' = IF Truthy(sql_agents) THEN "delete_agents"
             ELSE "check_azure_client"
    /\ UNCHANGED <<creds, azure_client, agent_config, sql_agents, published,
                   calls, startup_error, cleanup_error, propagated, requests,
                   response>>

DeleteAgents ==
    /\ pc = "delete_agents"
    /\ \/ /\ calls' = Append(calls, Call("delete_agents", TRUE, None))
          /\ pc' = "clear_sql_agents"
          /\ UNCHANGED <<creds, azure_client, agent_config, sql_agents,
                         published, startup_error, cleanup_error, propagated,
                         requests, response>>
       \/ ShutdownExcept("delete_agents")

\* sql_agents.agent_manager.clear_sql_agents: retract the reference.
clear_sql_agents == published' = None

ClearAgents ==
    /\ pc = "clear_sql_agents"
    /\ \/ /\ clear_sql_agents
          /\ calls' = Append(calls, Call("clear_sql_agents", TRUE, None))
          /\ pc' = "check_azure_client"
          /\ UNCHANGED <<creds, azure_client, agent_config, sql_agents,
                         startup_error, cleanup_error, propagated, requests,
                         response>>
       \/ ShutdownExcept("clear_sql_agents")

\* `if azure_client:` with the test inverted.
CheckClientInverted ==
    /\ pc = "check_azure_client"
    /\ pc' = IF ~Truthy(azure_client) THEN "close" ELSE "done"
    /\ UNCHANGED <<creds, azure_client, agent_config, sql_agents, published,
                   calls, startup_error, cleanup_error, propagated, requests,
                   response>>

CheckClient ==
    /\ pc = "check_azure_client"
    /\ pc' = IF Truthy(azure_client) THEN "close" ELSE "done"
    /\ UNCHANGED <<creds, azure_client, agent_config, sql_agents, published,
                   calls, startup_error, cleanup_error, propagated, requests,
                   response>>

\* A close that also resets the client global.
CloseClientResets ==
    /\ pc = "close"
    /\ \/ /\ calls' = Append(calls, Call("close", TRUE, None))
          /\ azure_client' = None
          /\ pc' = "done"
          /\ UNCHANGED <<creds, agent_config, sql_agents,
                         published, startup_error, cleanup_error, propagated,
                         requests, response>>
       \/ ShutdownExcept("close")

CloseClient ==
    /\ pc = "close"
    /\ \/ /\ calls' = Append(calls, Call("close", TRUE, None))
          /\ pc' = "done"
          /\ UNCHANGED <<creds, azure_client, agent_config, sql_agents,
                         published, startup_error, cleanup_error, propagated,
                         requests, response>>
       \/ ShutdownExcept("close")

Next ==
    \/ GetCredential
    \/ CreateClient
    \/ BuildAgentConfig
    \/ CreateAgents
    \/ SetAgents
    \/ HealthCheck
    \/ StopServing
    \/ CheckAgents
    \/ DeleteAgents
    \/ ClearAgents
    \/ CheckClient
    \/ CloseClient

Spec == Init /\ [][Next]_vars

\* Every awaited collaborator call returns or raises, and the framework
\* resumes lifespan once it runs it: the steps of lifespan are weakly fair.
\* Stopping the server (StopServing) is the operator's choice and is not.
FairSpec ==
    /\ Spec
    /\ WF_vars(GetCredential)
    /\ WF_vars(CreateClient)
    /\ WF_vars(BuildAgentConfig)
    /\ WF_vars(CreateAgents)
    /\ WF_vars(SetAgents)
    /\ WF_vars(CheckAgents)
    /\ WF_vars(DeleteAgents)
    /\ WF_vars(ClearAgents)
    /\ WF_vars(CheckClient)
    /\ WF_vars(CloseClient)

TypeOK ==
    /\ pc \in StartupPcs \cup ShutdownPcs \cup {"serving", "done"}
    /\ creds \in BOOLEAN
    /\ azure_client \in {None} \cup Handles
    /\ sql_agents \in {None} \cup Handles
    /\ published \in {None} \cup Handles
    /\ propagated \in BOOLEAN
    /\ requests \in 0..MaxRequests
    /\ response \in {NoResponse, Healthy}

\* ----------------------------------------------------------------- claims

\* Startup ran to the end of its try body: the agents were published.
StartupSucceeded == startup_error = "" /\ Returned("set_sql_agents")
\* No cleanup call raised.
NoCleanupFailure == cleanup_error = ""
\* Lifespan is past the yield.
AfterServing == pc \in ShutdownPcs \cup {"done"}

\* C1: when shutdown runs with an agent set and a client handle present and
\* delete_agents fails, azure_client.close is still attempted afterwards.
C1_CloseAttemptedAfterDeleteFailure ==
    (pc = "done" /\ Truthy(sql_agents) /\ Truthy(azure_client)
        /\ Failed("delete_agents"))
    => Called("close")

StartupSteps == {"get_azure_credential", "create_client", "AgentBaseConfig",
                 "SqlAgents.create"}

C3_StartupFailureSwallowed ==
    (\E op \in StartupSteps : Failed(op))
    => /\ startup_error \in StartupSteps
       /\ ~propagated
       /\ pc \in {"serving"} \cup ShutdownPcs \cup {"done"}
       /\ sql_agents = None
       /\ published = None

C3_Witness ==
    /\ pc = "serving" /\ requests > 0
    /\ Failed("SqlAgents.create") /\ Truthy(azure_client)

\* C4: whatever the startup outcome, lifespan eventually reaches the serving
\* phase, and every health probe answers {"status": "healthy"} and leaves
\* the agent set, the client handle and the published reference unchanged.
C4_HealthAlwaysReached ==
    /\ <>(pc = "serving")
    /\ [](requests > 0 => response = Healthy)
    /\ [][requests' # requests =>
            /\ pc = "serving"
            /\ response' = Healthy
            /\ UNCHANGED <<sql_agents, azure_client, published, pc>>]_vars

C4_Witness ==
    /\ pc = "serving" /\ requests > 0 /\ response = Healthy
    /\ startup_error = "create_client"

\* C5: a shutdown that finds the agent set and the client handle absent
\* makes no delete_agents, clear_sql_agents or close call, raises and logs
\* no error, and leaves both handles absent.
C5_ShutdownNoopWhenUninitialized ==
    (AfterServing /\ sql_agents = None /\ azure_client = None)
    => /\ published = None
       /\ ~Called("delete_agents")
       /\ ~Called("clear_sql_agents")
       /\ ~Called("close")
       /\ cleanup_error = ""
       /\ ~propagated

C5_Witness ==
    pc = "done" /\ sql_agents = None /\ azure_client = None /\ requests > 0

\* C6: for every startup outcome and every failing cleanup call, shutdown
\* terminates and no error leaves lifespan.
C6_ShutdownNeverBlocksExit ==
    /\ [](~propagated)
    /\ [](cleanup_error # "" => pc = "done")
    /\ (pc = "check_sql_agents") ~> (pc = "done")

C6_Witness ==
    pc = "done" /\ cleanup_error = "clear_sql_agents" /\ ~propagated

C8_PublishedThenCleared ==
    StartupSucceeded
    => /\ pc = "serving" => published = ResultOf("SqlAgents.create")
       /\ pc = "done" => published = None

\* C9: startup has completed before the serving phase begins, no shutdown
\* call happens before the serving phase has ended, startup and shutdown
\* each run at most once and never overlap, and the agent set, the client
\* handle and the published reference are not written while serving.
StartupOps == StartupSteps \cup {"set_sql_agents"}
ShutdownOps == {"delete_agents", "clear_sql_agents", "close"}
Phase(p) == IF p \in StartupPcs THEN 0
            ELSE IF p = "serving" THEN 1
            ELSE IF p \in ShutdownPcs THEN 2 ELSE 3

C9_PhasesOrdered ==
    /\ [](/\ \A op \in StartupOps \cup ShutdownOps : Count(op) <= 1
          /\ Phase(pc) <= 1 => \A op \in ShutdownOps : ~Called(op)
          /\ requests > 0 => Phase(pc) >= 1
          /\ Phase(pc) >= 1 =>
                (startup_error # "" \/ Returned("set_sql_agents")))
    /\ [][/\ Phase(pc') >= Phase(pc)
          /\ Phase(pc) >= 1 =>
                \A op \in StartupOps : Count(op)' = Count(op)
          /\ Phase(pc) = 1 =>
                UNCHANGED <<sql_agents, azure_client, published, calls>>]_vars

C9_Witness ==
    /\ pc = "done" /\ requests = MaxRequests
    /\ Called("delete_agents") /\ Called("close")

\* C10: when startup created the client handle and then agent configuration
\* or agent-set creation failed, shutdown calls close exactly once and calls
\* neither delete_agents nor clear_sql_agents.
C10_ClientOfFailedStartupClosed ==
    (Failed("AgentBaseConfig") \/ Failed("SqlAgents.create"))
    => /\ ~Called("delete_agents")
       /\ ~Called("clear_sql_agents")
       /\ Count("close") <= 1
       /\ pc = "done" => Count("close") = 1

C10_Witness ==
    /\ pc = "done" /\ Failed("SqlAgents.create")
    /\ Count("close") = 1 /\ ~Called("delete_agents")

====
